---- MODULE Spec2Model ----
(***************************************************************************)
(* My-Zootopia-API: animals_web_generator.py.                              *)
(*                                                                         *)
(* The pipeline load -> filter -> serialize -> template-substitute, and    *)
(* the control flow of main() with its exit statuses.  Python str values   *)
(* are TLA+ strings; a dict is a function whose DOMAIN is its key set; an  *)
(* Optional value is None (<<>>) or Some(v) (<<v>>).                       *)
(***************************************************************************)
EXTENDS Integers, Sequences, FiniteSets, TLC

VARIABLES
    call,               \* a direct call of one function: its arguments and result
    pc,                 \* position of main()
    args,               \* argparse.Namespace of the run
    env,                \* what the run has read from the outside world so far
    animal_name,        \* main: animal_name
    animal_data,        \* main: animal_data
    offered,            \* the numbered skin type list printed to the user
    selected_skin_type, \* main: selected_skin_type
    content,            \* the markup handed to the template substitution
    html,               \* main: html, the page to be saved
    output_file,        \* the output file as this run left it
    exit_code,          \* process exit status
    raised,             \* the exception that ended the run
    fetches             \* HTTP requests issued

vars == <<call, pc, args, env, animal_name, animal_data, offered,
          selected_skin_type, content, html, output_file, exit_code, raised,
          fetches>>

mainVars == <<pc, args, env, animal_name, animal_data, offered,
              selected_skin_type, content, html, output_file, exit_code, raised,
          fetches>>

---------------------------------------------------------------------------
(* Bounds of the model.                                                    *)

MaxRecords == 3      \* records in a data set handed to a function directly
MaxData == 2         \* records in a data set read by main()
MaxChunks == 3       \* pieces a template text is built from
MaxFragments == 2    \* fragments handed to the page assembly

---------------------------------------------------------------------------
(* Python values.                                                          *)

None == <<>>
Some(v) == <<v>>

\* bool(x) of an Optional[str]: None and "" are falsy.
IsTruthy(o) == o # None /\ o[1] # ""

EmptyDict == [k \in {} |-> ""]

\* dict.get(key): None when the key is absent.
Get(d, k) == IF k \in DOMAIN d THEN Some(d[k]) ELSE None

\* dict.get(key, default)
GetOr(d, k, default) == IF k \in DOMAIN d THEN d[k] ELSE default

Range(s) == {s[i] : i \in 1..Len(s)}

\* Characters in code point order (the ones the modelled names are made of).
CodePoints == " -0123456789ABCDEFGHIJKLMNOPQRSTUVWXYZ_abcdefghijklmnopqrstuvwxyz"

CharRank(c) == CHOOSE i \in 1..Len(CodePoints) : SubSeq(CodePoints, i, i) = c

\* str.__lt__: the first differing character decides, a proper prefix is less.
RECURSIVE StrLess(_, _)
StrLess(a, b) ==
    IF b = "" THEN FALSE
    ELSE IF a = "" THEN TRUE
    ELSE IF SubSeq(a, 1, 1) = SubSeq(b, 1, 1)
         THEN StrLess(SubSeq(a, 2, Len(a)), SubSeq(b, 2, Len(b)))
         ELSE CharRank(SubSeq(a, 1, 1)) < CharRank(SubSeq(b, 1, 1))

\* sorted(values) of a set of distinct strings.
RECURSIVE Sorted(_)
Sorted(S) ==
    IF S = {} THEN <<>>
    ELSE LET m == CHOOSE x \in S : \A y \in S \ {x} : StrLess(x, y)
         IN  <<m>> \o Sorted(S \ {m})

\* sep.join(parts)
RECURSIVE Join(_, _)
Join(sep, parts) ==
    IF parts = <<>> THEN ""
    ELSE IF Len(parts) = 1 THEN parts[1]
    ELSE parts[1] \o sep \o Join(sep, Tail(parts))

\* s.find(sub, start), 1-based; 0 when sub does not occur at or after start.
Find(s, sub, start) ==
    LET hits == {i \in start..(Len(s) - Len(sub) + 1) :
                     SubSeq(s, i, i + Len(sub) - 1) = sub}
    IN  IF hits = {} THEN 0 ELSE CHOOSE i \in hits : \A j \in hits : i <= j

\* Mutant: only the first occurrence is replaced (str.replace(old, new, 1)).
Replace_FirstOnly(s, old, new) ==
    LET i == Find(s, old, 1)
    IN  IF i = 0 THEN s
        ELSE SubSeq(s, 1, i - 1) \o new \o SubSeq(s, i + Len(old), Len(s))

\* s.replace(old, new): scan left to right, replace the first occurrence,
\* resume after it.  An empty old matches before every character and at the end.
RECURSIVE Replace(_, _, _)
Replace(s, old, new) ==
    IF old = ""
    THEN IF s = "" THEN new
         ELSE new \o SubSeq(s, 1, 1) \o Replace(SubSeq(s, 2, Len(s)), old, new)
    ELSE LET i == Find(s, old, 1)
         IN  IF i = 0 THEN s
             ELSE SubSeq(s, 1, i - 1) \o new
                  \o Replace(SubSeq(s, i + Len(old), Len(s)), old, new)

\* str.strip() of a text whose only whitespace is the space.
RECURSIVE Strip(_)
Strip(s) ==
    IF s = "" THEN ""
    ELSE IF SubSeq(s, 1, 1) = " " THEN Strip(SubSeq(s, 2, Len(s)))
    ELSE IF SubSeq(s, Len(s), Len(s)) = " " THEN Strip(SubSeq(s, 1, Len(s) - 1))
    ELSE s

UpperCase == "ABCDEFGHIJKLMNOPQRSTUVWXYZ"
LowerCase == "abcdefghijklmnopqrstuvwxyz"
Digits == "0123456789"

\* str.lower()
RECURSIVE Lower(_)
Lower(s) ==
    IF s = "" THEN ""
    ELSE LET c == SubSeq(s, 1, 1)
             i == Find(UpperCase, c, 1)
         IN  (IF i = 0 THEN c ELSE SubSeq(LowerCase, i, i))
             \o Lower(SubSeq(s, 2, Len(s)))

\* str.isdigit()
IsDigit(s) == s # "" /\ \A i \in 1..Len(s) : Find(Digits, SubSeq(s, i, i), 1) # 0

\* int(s) of a digit string
RECURSIVE ToInt(_)
ToInt(s) ==
    IF s = "" THEN 0
    ELSE 10 * ToInt(SubSeq(s, 1, Len(s) - 1))
         + Find(Digits, SubSeq(s, Len(s), Len(s)), 1) - 1

\* The exception classes the program meets, each with its direct bases.
Bases ==
    [OSError |-> {}, ValueError |-> {},
     FileNotFoundError |-> {"OSError"},
     JSONDecodeError |-> {"ValueError"},
     RequestException |-> {"OSError"},
     ConnectionError |-> {"RequestException"},
     HTTPError |-> {"RequestException"},
     RequestsJSONDecodeError |-> {"RequestException", "JSONDecodeError"}]

RECURSIVE IsInstance(_, _)
IsInstance(type, class) ==
    type = class \/ \E base \in Bases[type] : IsInstance(base, class)

---------------------------------------------------------------------------
(* The functions of animals_web_generator.py.                              *)

PLACEHOLDER == "__REPLACE_ANIMALS_INFO__"

extract_skin_type(animal) ==
    LET characteristics == GetOr(animal, "characteristics", EmptyDict)
        value == Get(characteristics, "skin_type")
    IN  IF IsTruthy(value) THEN value[1] ELSE "Unknown"

\* Mutant: the sentinel is sorted with the other values.
list_skin_types_SortsSentinel(data) ==
    <<"All">> \o Sorted({extract_skin_type(data[i]) : i \in 1..Len(data)})

\* Mutant: the wildcard is not offered.
list_skin_types_NoWildcard(data) ==
    LET values == {extract_skin_type(data[i]) : i \in 1..Len(data)}
        known == Sorted({value \in values : value # "Unknown"})
    IN  IF "Unknown" \in values THEN Append(known, "Unknown") ELSE known

list_skin_types(data) ==
    LET values == {extract_skin_type(data[i]) : i \in 1..Len(data)}
        known == Sorted({value \in values : value # "Unknown"})
        listed == IF "Unknown" \in values THEN Append(known, "Unknown") ELSE known
    IN  <<"All">> \o listed

\* Mutant: the raw skin_type field is compared, not the extracted value.
filter_by_skin_type_RawField(data, skin_type) ==
    IF skin_type = "All" THEN data
    ELSE SelectSeq(data, LAMBDA animal :
             GetOr(GetOr(animal, "characteristics", EmptyDict), "skin_type", "")
                 = skin_type)

\* Mutant: "All" is filtered for like any other value.
filter_by_skin_type_NoWildcard(data, skin_type) ==
    SelectSeq(data, LAMBDA animal : extract_skin_type(animal) = skin_type)

filter_by_skin_type(data, skin_type) ==
    IF skin_type = "All" THEN data
    ELSE SelectSeq(data, LAMBDA animal : extract_skin_type(animal) = skin_type)

\* Mutant: the "if value" test is dropped, so empty attributes get a line too.
KeptFields_All(fields) == fields

\* The comprehension's filter: only the fields with a truthy value.
KeptFields(fields) == SelectSeq(fields, LAMBDA f : f[2] # "")

serialize_animal(animal) ==
    LET characteristics == GetOr(animal, "characteristics", EmptyDict)
        locations == Join(", ", GetOr(animal, "locations", <<>>))
        fields == <<
            <<"Diet", GetOr(characteristics, "diet", "")>>,
            <<"Locations", locations>>,
            <<"Type", GetOr(characteristics, "type", "")>>,
            <<"Skin type", GetOr(characteristics, "skin_type", "")>>,
            <<"Lifespan", GetOr(characteristics, "lifespan", "")>>,
            <<"Weight", GetOr(characteristics, "weight", "")>>,
            <<"Top speed", GetOr(characteristics, "top_speed", "")>>,
            <<"Temperament", GetOr(characteristics, "temperament", "")>> >>
        kept == KeptFields(fields)
        details == [i \in 1..Len(kept) |->
            "            <li class=\"card__detail\"><strong>" \o kept[i][1]
            \o ":</strong> " \o kept[i][2] \o "</li>"]
        lines == << "    <li class=\"cards__item\">",
                    "        <div class=\"card__title\">"
                        \o GetOr(animal, "name", "") \o "</div>",
                    "        <div class=\"card__text\">",
                    "            <ul class=\"card__details\">" >>
                 \o details
                 \o << "            </ul>",
                       "        </div>",
                       "    </li>" >>
    IN  Join("\n", lines)

yield_data(data) == [i \in 1..Len(data) |-> serialize_animal(data[i])]

create_error_message(name) ==
    "\n    <li class=\"cards__item\">\n"
    \o "        <div class=\"card__title\">No Results Found</div>\n"
    \o "        <div class=\"card__text\">\n"
    \o "            <h2 style=\"color: #e74c3c; text-align: center; margin: 20px 0;\">\n"
    \o "                The animal \"" \o name \o "\" doesn't exist.\n"
    \o "            </h2>\n"
    \o "            <p style=\"text-align: center; color: #7f8c8d; font-style: italic;\">\n"
    \o "                Please try searching for a different animal name.\n"
    \o "            </p>\n"
    \o "        </div>\n"
    \o "    </li>\n"
    \o "    "

\* replace_html_content, given the text load_text read from the template file.
replace_html_content(template, placeholder, data) == Replace(template, placeholder, data)

\* The tail of generate_html: join the fragments, substitute them.
Assemble(fragments, template, placeholder) ==
    replace_html_content(template, placeholder, Join("\n", fragments))

Exception(type, msg) == [type |-> type, msg |-> msg]

\* generate_html: the exception it raises, or the page it returns.
generate_html(data, template, placeholder, skin_type) ==
    LET filtering == IsTruthy(skin_type) /\ skin_type[1] # "All"
        animals == IF filtering THEN filter_by_skin_type(data, skin_type[1]) ELSE data
    IN  IF filtering /\ animals = <<>>
        THEN [raised |-> Some(Exception("ValueError",
                  "No animals found for skin type '" \o skin_type[1] \o "'.")),
              content |-> None, html |-> None]
        ELSE [raised |-> None,
              content |-> Some(Join("\n", yield_data(animals))),
              html |-> Some(Assemble(yield_data(animals), template, placeholder))]

---------------------------------------------------------------------------
(* Inputs.                                                                 *)

SeqsUpTo(S, n) == UNION {[1..k -> S] : k \in 0..n}

Animal(name, skin_type) ==
    [name |-> name, characteristics |-> [skin_type |-> skin_type]]

\* Records that differ in how the skin type is given: a value, the sentinel's
\* and the wildcard's own text, an empty value, no skin_type key, no
\* characteristics at all.
FilterAnimals ==
    {Animal(n, s) : n \in {"Fox", "Eel"}, s \in {"Fur", ""}}
    \cup {Animal("Koi", "Scales"), Animal("Ant", "Unknown"), Animal("Bat", "All"),
          [name |-> "Emu"], [name |-> "Owl", characteristics |-> EmptyDict]}

Targets == {"All", "Fur", "Scales", "Unknown", "Feathers", ""}

OptionalTargets == {None} \cup {Some(t) : t \in Targets}

MainTemplates == {"<ul>__REPLACE_ANIMALS_INFO__</ul>", "<ul></ul>"}

Idle == [op |-> "idle"]

---------------------------------------------------------------------------
(* main(): the state after parse_args.                                     *)

AnimalNameArgs == {None, Some(""), Some("Fox"), Some("qwxyz")}
ApiKeyArgs == {None, Some(""), Some("key")}
SkinTypeArgs == {None, Some(""), Some("All"), Some("Fur"), Some("Unknown"), Some("Feathers")}

ArgSpace ==
    [animal_name : AnimalNameArgs, use_json : BOOLEAN, api_key : ApiKeyArgs,
     skin_type : SkinTypeArgs, list_skin_types : BOOLEAN]

NoEnv == [template_exists |-> None, typed_name |-> None, source |-> None,
          template |-> None]

MainInit(a) ==
    /\ pc = "check_template"
    /\ args = a
    /\ env = NoEnv
    /\ animal_name = None
    /\ animal_data = None
    /\ offered = None
    /\ selected_skin_type = None
    /\ content = None
    /\ html = None
    /\ output_file = None
    /\ exit_code = None
    /\ raised = None
    /\ fetches = 0

\* Mutant: the ValueError clause comes before its subclass's.
MainHandlers_ValueErrorFirst ==
    << <<"FileNotFoundError", 1>>, <<"ValueError", 2>>,
       <<"JSONDecodeError", 1>>, <<"RequestException", 3>> >>

\* The except clauses of main(), in order, with the status each exits with.
MainHandlers ==
    << <<"FileNotFoundError", 1>>, <<"JSONDecodeError", 1>>,
       <<"ValueError", 2>>, <<"RequestException", 3>> >>

\* The first clause the exception is an instance of decides; an exception no
\* clause catches ends the interpreter with status 1.
ExitStatus(exc) ==
    LET matching == {i \in 1..Len(MainHandlers) : IsInstance(exc.type, MainHandlers[i][1])}
    IN  IF matching = {} THEN 1
        ELSE MainHandlers[CHOOSE i \in matching : \A j \in matching : i <= j][2]

\* An exception leaves the try block: the handler prints and calls sys.exit.
Exits(exc) ==
    /\ pc' = "exited"
    /\ raised' = Some(exc)
    /\ exit_code' = Some(ExitStatus(exc))

\* main() returns.
Returns ==
    /\ pc' = "exited"
    /\ exit_code' = Some(0)
    /\ UNCHANGED raised

MainAnimals == {Animal("Fox", "Fur"), Animal("Eel", ""), Animal("Koi", "Scales")}

DataSets == SeqsUpTo(MainAnimals, MaxData)

\* What the API request meets: a transport failure, an HTTP error status, a
\* body that is not JSON (the class response.json() raises depends on the
\* installed requests), a JSON value that is no list, a list.
ApiResponses ==
    {[kind |-> "transport_error"], [kind |-> "http_error"], [kind |-> "not_list"],
     [kind |-> "bad_json", exc |-> "RequestsJSONDecodeError"],
     [kind |-> "bad_json", exc |-> "JSONDecodeError"]}
    \cup {[kind |-> "json", body |-> d] : d \in DataSets}

DataFiles ==
    {[kind |-> "missing"], [kind |-> "malformed"]}
    \cup {[kind |-> "json", body |-> d] : d \in DataSets}

TypedNames == {"", "  ", " Fox ", "qwxyz"}

PromptInputs == {"", " ", "1", " 2 ", "9", "all", "FUR", "Unknown", "zebra"}

\* fetch_animals_from_api: the exception it raises, or the list it returns.
fetch_animals_from_api(response) ==
    LET inner ==
            CASE response.kind = "transport_error" -> Some("ConnectionError")
              [] response.kind = "http_error" -> Some("HTTPError")
              [] response.kind = "bad_json" -> Some(response.exc)
              [] response.kind = "not_list" -> Some("ValueError")
              [] OTHER -> None
    IN  IF inner = None THEN [raised |-> None, data |-> Some(response.body)]
        ELSE IF IsInstance(inner[1], "RequestException")
             THEN [raised |-> Some(Exception("RequestException", "API request failed")),
                   data |-> None]
        ELSE IF IsInstance(inner[1], "JSONDecodeError")
             THEN [raised |-> Some(Exception("ValueError", "Failed to parse API response")),
                   data |-> None]
        ELSE [raised |-> Some(Exception(inner[1], "Unexpected API response format")),
              data |-> None]

\* One round of prompt_skin_type's loop: the option returned, or None when
\* the loop asks again.
prompt_skin_type_round(options, typed) ==
    LET choice == Strip(typed)
        byNumber == IsDigit(choice) /\ 1 <= ToInt(choice) /\ ToInt(choice) <= Len(options)
        named == {i \in 1..Len(options) : Lower(options[i]) = Lower(choice)}
    IN  IF choice = "" THEN None
        ELSE IF byNumber THEN Some(options[ToInt(choice)])
        ELSE IF named # {} /\ options[CHOOSE i \in named : \A j \in named : j <= i] # ""
             THEN Some(options[CHOOSE i \in named : \A j \in named : j <= i])
        ELSE None

CheckTemplate ==
    /\ pc = "check_template"
    /\ \E exists \in BOOLEAN :
          /\ env' = [env EXCEPT !.template_exists = Some(exists)]
          /\ IF exists
             THEN pc' = "get_name" /\ UNCHANGED <<raised, exit_code>>
             ELSE Exits(Exception("FileNotFoundError", "Template file not found"))
    /\ UNCHANGED <<call, args, animal_name, animal_data, offered, selected_skin_type,
                   content, html, output_file, fetches>>

GetAnimalName ==
    /\ pc = "get_name"
    /\ IF IsTruthy(args.animal_name)
       THEN /\ animal_name' = args.animal_name
            /\ pc' = "get_source"
            /\ UNCHANGED <<env, raised, exit_code>>
       ELSE \E typed \in TypedNames :
               /\ env' = [env EXCEPT !.typed_name = Some(typed)]
               /\ IF Strip(typed) = ""
                  THEN /\ Exits(Exception("ValueError", "Animal name cannot be empty"))
                       /\ UNCHANGED animal_name
                  ELSE /\ animal_name' = Some(Strip(typed))
                       /\ pc' = "get_source"
                       /\ UNCHANGED <<raised, exit_code>>
    /\ UNCHANGED <<call, args, animal_data, offered, selected_skin_type, content, html,
                   output_file, fetches>>

\* Mutant: an empty result is not told apart and goes on to the selection.
AfterFetch_NoEmptyCheck(data) == "list_or_select"

\* "if not animal_data": an empty list takes the "no results" branch.
AfterFetch(data) == IF data = <<>> THEN "no_results" ELSE "list_or_select"

FetchFromApi ==
    /\ pc = "get_source"
    /\ ~args.use_json
    /\ IF ~IsTruthy(args.api_key)
       THEN /\ Exits(Exception("ValueError", "API key is required"))
            /\ UNCHANGED <<env, animal_data, fetches>>
       ELSE \E response \in ApiResponses :
               LET fetched == fetch_animals_from_api(response)
               IN  /\ env' = [env EXCEPT !.source = Some(response)]
                   /\ fetches' = fetches + 1
                   /\ IF fetched.raised # None
                      THEN Exits(fetched.raised[1]) /\ UNCHANGED animal_data
                      ELSE /\ animal_data' = fetched.data
                           /\ pc' = AfterFetch(fetched.data[1])
                           /\ UNCHANGED <<raised, exit_code>>
    /\ UNCHANGED <<call, args, animal_name, offered, selected_skin_type, content, html,
                   output_file>>

LoadDataFile ==
    /\ pc = "get_source"
    /\ args.use_json
    /\ \E file \in DataFiles :
          /\ env' = [env EXCEPT !.source = Some(file)]
          /\ IF file.kind = "missing"
             THEN Exits(Exception("FileNotFoundError", "Data file not found"))
                  /\ UNCHANGED animal_data
             ELSE IF file.kind = "malformed"
             THEN Exits(Exception("JSONDecodeError", "Expecting value"))
                  /\ UNCHANGED animal_data
             ELSE /\ animal_data' = Some(file.body)
                  /\ pc' = "list_or_select"
                  /\ UNCHANGED <<raised, exit_code>>
    /\ UNCHANGED <<call, args, animal_name, offered, selected_skin_type, content, html,
                   output_file, fetches>>

\* The API found nothing: the "no results" card is put into the template and
\* saved, and main returns.
NoResultsPage ==
    /\ pc = "no_results"
    /\ \E template \in MainTemplates :
          LET error_html == create_error_message(animal_name[1])
          IN  /\ env' = [env EXCEPT !.template = Some(template)]
              /\ content' = Some(error_html)
              /\ html' = Some(Replace(template, PLACEHOLDER, error_html))
              /\ output_file' = Some(Replace(template, PLACEHOLDER, error_html))
    /\ Returns
    /\ UNCHANGED <<call, args, animal_name, animal_data, offered, selected_skin_type,
                   fetches>>

ListSkinTypesMode ==
    /\ pc = "list_or_select"
    /\ args.list_skin_types
    /\ LET skin_types == list_skin_types(animal_data[1])
       IN  IF skin_types = <<>> THEN UNCHANGED offered
           ELSE offered' = Some(skin_types)
    /\ Returns
    /\ UNCHANGED <<call, args, env, animal_name, animal_data, selected_skin_type,
                   content, html, output_file, fetches>>

SelectSkinType ==
    /\ pc = "list_or_select"
    /\ ~args.list_skin_types
    /\ IF args.skin_type = None
       THEN LET skin_types == list_skin_types(animal_data[1])
            IN  IF skin_types # <<>>
                THEN /\ offered' = Some(skin_types)
                     /\ pc' = "prompt"
                     /\ UNCHANGED selected_skin_type
                ELSE /\ selected_skin_type' = Some("All")
                     /\ pc' = "generate"
                     /\ UNCHANGED offered
       ELSE /\ selected_skin_type' = args.skin_type
            /\ pc' = "generate"
            /\ UNCHANGED offered
    /\ UNCHANGED <<call, args, env, animal_name, animal_data, content, html,
                   output_file, exit_code, raised, fetches>>

PromptSkinType ==
    /\ pc = "prompt"
    /\ \E typed \in PromptInputs :
          LET chosen == prompt_skin_type_round(offered[1], typed)
          IN  IF chosen = None
              THEN UNCHANGED <<pc, selected_skin_type>>
              ELSE selected_skin_type' = chosen /\ pc' = "generate"
    /\ UNCHANGED <<call, args, env, animal_name, animal_data, offered, content, html,
                   output_file, exit_code, raised, fetches>>

\* Mutant: the output file is opened for writing before the page is generated.
GenerateHtmlStep_OpensOutputFirst ==
    /\ pc = "generate"
    /\ \E template \in MainTemplates :
          LET generated == generate_html(animal_data[1], template, PLACEHOLDER,
                                        selected_skin_type)
          IN  IF generated.raised # None
              THEN /\ Exits(generated.raised[1])
                   /\ output_file' = Some("")
                   /\ UNCHANGED <<env, content, html>>
              ELSE /\ env' = [env EXCEPT !.template = Some(template)]
                   /\ content' = generated.content
                   /\ html' = generated.html
                   /\ pc' = "save"
                   /\ UNCHANGED <<raised, exit_code, output_file>>
    /\ UNCHANGED <<call, args, animal_name, animal_data, offered, selected_skin_type,
                   fetches>>

GenerateHtmlStep ==
    /\ pc = "generate"
    /\ \E template \in MainTemplates :
          LET generated == generate_html(animal_data[1], template, PLACEHOLDER,
                                        selected_skin_type)
          IN  IF generated.raised # None
              THEN /\ Exits(generated.raised[1])
                   /\ UNCHANGED <<env, content, html>>
              ELSE /\ env' = [env EXCEPT !.template = Some(template)]
                   /\ content' = generated.content
                   /\ html' = generated.html
                   /\ pc' = "save"
                   /\ UNCHANGED <<raised, exit_code>>
    /\ UNCHANGED <<call, args, animal_name, animal_data, offered, selected_skin_type,
                   output_file, fetches>>

SaveOutput ==
    /\ pc = "save"
    /\ output_file' = html
    /\ Returns
    /\ UNCHANGED <<call, args, env, animal_name, animal_data, offered,
                   selected_skin_type, content, html, fetches>>

Init == call = Idle /\ \E a \in ArgSpace : MainInit(a)

Next ==
    \/ CheckTemplate
    \/ GetAnimalName
    \/ FetchFromApi
    \/ LoadDataFile
    \/ NoResultsPage
    \/ ListSkinTypesMode
    \/ SelectSkinType
    \/ PromptSkinType
    \/ GenerateHtmlStep
    \/ SaveOutput

Spec == Init /\ [][Next]_vars

---------------------------------------------------------------------------
(* Direct calls of the pipeline's functions.                               *)

InitCalls ==
    /\ call = Idle
    /\ MainInit([animal_name |-> None, use_json |-> FALSE, api_key |-> None,
                 skin_type |-> None, list_skin_types |-> FALSE])

CallFilterBySkinType ==
    /\ call = Idle
    /\ \E data \in SeqsUpTo(FilterAnimals, MaxRecords), skin_type \in Targets :
          call' = [op |-> "filter_by_skin_type", data |-> data,
                   skin_type |-> skin_type,
                   result |-> filter_by_skin_type(data, skin_type)]
    /\ UNCHANGED mainVars

CallGenerateHtml ==
    /\ call = Idle
    /\ \E data \in SeqsUpTo(FilterAnimals, MaxData),
          skin_type \in OptionalTargets, template \in MainTemplates :
          call' = [op |-> "generate_html", data |-> data, skin_type |-> skin_type,
                   template |-> template,
                   result |-> generate_html(data, template, PLACEHOLDER, skin_type)]
    /\ UNCHANGED mainVars

NextFilter == CallFilterBySkinType \/ CallGenerateHtml

SpecFilter == InitCalls /\ [][NextFilter]_vars

\* Records for the listing: values that sort by case, by prefix and against
\* the sentinel.
ListAnimals ==
    {Animal("x", s) : s \in {"Fur", "Scales", "Scale", "fur", "Hair", "Unknown", "All", ""}}
    \cup {[name |-> "x"]}

CallListSkinTypes ==
    /\ call = Idle
    /\ \E data \in SeqsUpTo(ListAnimals, MaxRecords) :
          call' = [op |-> "list_skin_types", data |-> data,
                   result |-> list_skin_types(data)]
    /\ UNCHANGED mainVars

NextList == CallListSkinTypes

SpecList == InitCalls /\ [][NextList]_vars

CharacteristicKeys ==
    {"diet", "type", "skin_type", "lifespan", "weight", "top_speed", "temperament"}

SampleValue ==
    [diet |-> "Omnivore", type |-> "Mammal", skin_type |-> "Fur",
     lifespan |-> "2 - 5 years", weight |-> "6kg", top_speed |-> "30 mph",
     temperament |-> "Shy"]

\* Every subset of the characteristics present, at most one of them empty.
SampleCharacteristics ==
    {[k \in D |-> IF k \in E THEN "" ELSE SampleValue[k]] :
        <<D, E>> \in {<<D, E>> \in (SUBSET CharacteristicKeys) \X (SUBSET CharacteristicKeys) :
                        E \subseteq D /\ Cardinality(E) <= 1}}

SampleLocations == {<<>>, <<"Asia", "Europe">>, <<"">>}

RenderAnimals ==
    {[name |-> "Fox", characteristics |-> c, locations |-> l] :
        c \in SampleCharacteristics, l \in SampleLocations}
    \cup {[name |-> "Fox", characteristics |-> c] : c \in SampleCharacteristics}
    \cup {[name |-> "Fox"], [locations |-> <<"Asia">>]}

CallSerializeAnimal ==
    /\ call = Idle
    /\ \E animal \in RenderAnimals :
          call' = [op |-> "serialize_animal", animal |-> animal,
                   result |-> serialize_animal(animal)]
    /\ UNCHANGED mainVars

NextRender == CallSerializeAnimal

SpecRender == InitCalls /\ [][NextRender]_vars

RECURSIVE Concat(_)
Concat(parts) == IF parts = <<>> THEN "" ELSE parts[1] \o Concat(Tail(parts))

TemplateChunks == {"<ul>", "</ul>", PLACEHOLDER, "REPLACE_ANIMALS_INFO__", "a"}

Templates == {Concat(chunks) : chunks \in SeqsUpTo(TemplateChunks, MaxChunks)}

Placeholders == {PLACEHOLDER, "aa", ""}

Fragments == {"<li>X</li>", PLACEHOLDER, ""}

CallAssemble ==
    /\ call = Idle
    /\ \E fragments \in SeqsUpTo(Fragments, MaxFragments),
          template \in Templates, placeholder \in Placeholders :
          call' = [op |-> "assemble", fragments |-> fragments,
                   template |-> template, placeholder |-> placeholder,
                   result |-> Assemble(fragments, template, placeholder)]
    /\ UNCHANGED mainVars

NextAssemble == CallAssemble

SpecAssemble == InitCalls /\ [][NextAssemble]_vars

---------------------------------------------------------------------------
(* What the claims are stated against.                                     *)

\* The classification of a record, read off its fields.
Classification(animal) ==
    IF /\ "characteristics" \in DOMAIN animal
       /\ "skin_type" \in DOMAIN animal.characteristics
       /\ animal.characteristics.skin_type # ""
    THEN animal.characteristics.skin_type
    ELSE "Unknown"

MatchingIndices(data, target) ==
    {i \in 1..Len(data) : Classification(data[i]) = target}

\* The k-th smallest element of a set of indices.
NthOf(S, k) == CHOOSE i \in S : Cardinality({j \in S : j <= i}) = k

\* C1: for a target other than "All", filter_by_skin_type returns exactly the
\* records whose classification (skin_type, or "Unknown" when absent or
\* empty) equals the target, each once, in their original relative order.
C1_FilterReturnsMatchesInOrder ==
    (call.op = "filter_by_skin_type" /\ call.skin_type # "All") =>
        LET idx == MatchingIndices(call.data, call.skin_type)
        IN  /\ Len(call.result) = Cardinality(idx)
            /\ \A k \in 1..Len(call.result) :
                   call.result[k] = call.data[NthOf(idx, k)]

C1_Witness ==
    /\ call.op = "filter_by_skin_type"
    /\ call.skin_type = "Unknown"
    /\ Len(call.data) = 3
    /\ call.data[1] = [name |-> "Emu"]
    /\ call.data[2] = Animal("Koi", "Scales")
    /\ call.data[3] = Animal("Fox", "")
    /\ call.result = <<[name |-> "Emu"], Animal("Fox", "")>>

\* C10: filter_by_skin_type(records, "All") returns the input sequence as it
\* is, and generate_html with "All" raises no empty-result error, for an
\* empty input too, and renders every record in order.
C10_AllIsIdentity ==
    /\ (call.op = "filter_by_skin_type" /\ call.skin_type = "All") =>
           call.result = call.data
    /\ (call.op = "generate_html" /\ call.skin_type = Some("All")) =>
           /\ call.result.raised = None
           /\ call.result.content =
                  Some(Join("\n", [i \in 1..Len(call.data) |->
                                       serialize_animal(call.data[i])]))

C10_Witness ==
    /\ call.op = "filter_by_skin_type"
    /\ call.skin_type = "All"
    /\ Len(call.data) = 2
    /\ Classification(call.data[1]) = "Fur"
    /\ Classification(call.data[2]) = "Unknown"
    /\ call.result = call.data

\* a < b in code point order, stated by the position where they part.
LexBefore(a, b) ==
    \E k \in 1..(Len(a) + 1) :
        /\ k - 1 <= Len(b)
        /\ SubSeq(a, 1, k - 1) = SubSeq(b, 1, k - 1)
        /\ \/ k = Len(a) + 1 /\ Len(b) >= k
           \/ /\ k <= Len(a)
              /\ k <= Len(b)
              /\ CharRank(SubSeq(a, k, k)) < CharRank(SubSeq(b, k, k))

\* C3: list_skin_types returns "All" first, then each classification of the
\* data once, ascending in code point order, except that "Unknown", when
\* present, is the last entry.
C3_ListingSortedUnknownLast ==
    (call.op = "list_skin_types") =>
        LET r == call.result
            t == IF r = <<>> THEN <<>> ELSE Tail(r)
            vals == {Classification(call.data[i]) : i \in 1..Len(call.data)}
        IN  /\ Len(r) >= 1
            /\ r[1] = "All"
            /\ Len(t) = Cardinality(vals)
            /\ Range(t) = vals
            /\ \A i, j \in 1..Len(t) :
                   i < j => \/ t[j] = "Unknown"
                            \/ t[i] # "Unknown" /\ LexBefore(t[i], t[j])

C3_Witness ==
    /\ call.op = "list_skin_types"
    /\ Len(call.data) = 3
    /\ call.data[1] = [name |-> "x"]
    /\ call.result = <<"All", "Scales", "fur", "Unknown">>

FieldLabels ==
    <<"Diet", "Locations", "Type", "Skin type", "Lifespan", "Weight",
      "Top speed", "Temperament">>

FieldKeys ==
    <<"diet", "locations", "type", "skin_type", "lifespan", "weight",
      "top_speed", "temperament">>

\* The value of the f-th attribute of a record; "" stands for absent.
FieldValue(animal, f) ==
    IF FieldKeys[f] = "locations"
    THEN IF "locations" \in DOMAIN animal
         THEN Concat([i \in 1..(2 * Len(animal.locations) - 1) |->
                         IF i % 2 = 1 THEN animal.locations[(i + 1) \div 2] ELSE ", "])
         ELSE ""
    ELSE IF "characteristics" \in DOMAIN animal
            /\ FieldKeys[f] \in DOMAIN animal.characteristics
         THEN animal.characteristics[FieldKeys[f]]
         ELSE ""

LabelTag(f) == "<strong>" \o FieldLabels[f] \o ":</strong>"

DetailLine(animal, f) ==
    "\n            <li class=\"card__detail\">" \o LabelTag(f) \o " "
    \o FieldValue(animal, f) \o "</li>\n"

NewlineCount(s) == Cardinality({i \in 1..Len(s) : SubSeq(s, i, i) = "\n"})

\* C5: serialize_animal emits the detail line of an attribute iff its value
\* is non-empty, each line once and carrying the value, and the lines come
\* in the order Diet, Locations, Type, Skin type, Lifespan, Weight,
\* Top speed, Temperament.
C5_DetailLineIffNonEmptyInOrder ==
    (call.op = "serialize_animal") =>
        LET out == call.result
            pos == [f \in 1..8 |-> Find(out, LabelTag(f), 1)]
            shown == {f \in 1..8 : FieldValue(call.animal, f) # ""}
        IN  /\ \A f \in 1..8 : (pos[f] # 0) <=> (f \in shown)
            /\ \A f \in shown :
                   /\ Find(out, DetailLine(call.animal, f), 1) # 0
                   /\ Find(out, LabelTag(f), pos[f] + 1) = 0
            /\ \A f, g \in shown : f < g => pos[f] < pos[g]
            /\ NewlineCount(out) = 6 + Cardinality(shown)

C5_Witness ==
    /\ call.op = "serialize_animal"
    /\ call.animal = [name |-> "Fox", characteristics |-> [diet |-> "Omnivore"]]
    /\ Find(call.result, "<strong>Diet:</strong> Omnivore</li>", 1) # 0
    /\ Find(call.result, "Type:", 1) = 0

\* The fragments with a newline between neighbours.
JoinedFragments(fragments) ==
    Concat([i \in 1..(2 * Len(fragments) - 1) |->
               IF i % 2 = 1 THEN fragments[(i + 1) \div 2] ELSE "\n"])

\* Where the token occurs in the text.
Occurrences(text, token) ==
    {i \in 1..(Len(text) - Len(token) + 1) :
        SubSeq(text, i, i + Len(token) - 1) = token}

\* The occurrences a left-to-right scan takes: none overlaps another, and
\* every occurrence left out starts inside an earlier one that was taken.
ScannedOccurrences(text, token) ==
    IF token = "" THEN Occurrences(text, token)
    ELSE CHOOSE S \in SUBSET Occurrences(text, token) :
            /\ \A s1, s2 \in S : s1 < s2 => s1 + Len(token) <= s2
            /\ \A q \in Occurrences(text, token) \ S :
                   \E s1 \in S : s1 < q /\ q < s1 + Len(token)

\* The text with the token's characters at the places S given way to data.
SubstituteAt(text, S, n, data) ==
    Concat([i \in 1..(Len(text) + 1) |->
        (IF i \in S THEN data ELSE "")
        \o (IF i <= Len(text) /\ ~(\E s1 \in S : s1 <= i /\ i < s1 + n)
            THEN SubSeq(text, i, i) ELSE "")])

\* C6 as stated: the page is the template with every literal occurrence of
\* the placeholder replaced by the newline-joined fragments.
C6_EveryLiteralOccurrenceReplaced ==
    (call.op = "assemble") =>
        call.result = SubstituteAt(call.template,
                                   Occurrences(call.template, call.placeholder),
                                   Len(call.placeholder),
                                   JoinedFragments(call.fragments))

\* C6 amended: the page is the template with the placeholder's occurrences
\* replaced by the newline-joined fragments (in source order) as a
\* left-to-right scan finds them, resuming after each replaced occurrence;
\* a template without the placeholder is returned unchanged.
C6_ScannedOccurrencesReplaced ==
    (call.op = "assemble") =>
        /\ call.result = SubstituteAt(call.template,
                                      ScannedOccurrences(call.template, call.placeholder),
                                      Len(call.placeholder),
                                      JoinedFragments(call.fragments))
        /\ Occurrences(call.template, call.placeholder) = {} =>
               call.result = call.template

C6_Witness ==
    /\ call.op = "assemble"
    /\ call.fragments = <<"<li>X</li>", "">>
    /\ call.placeholder = PLACEHOLDER
    /\ call.template = PLACEHOLDER \o "REPLACE_ANIMALS_INFO__" \o PLACEHOLDER
    /\ call.result = "<li>X</li>\nREPLACE_ANIMALS_INFO__<li>X</li>\n"

\* C2: a target other than "All" that no record's classification equals
\* makes the filter step fail with a ValueError naming the target, and no
\* page is produced.
C2_EmptyFilterResultRaises ==
    (/\ pc \in {"save", "exited"}
     /\ selected_skin_type # None
     /\ selected_skin_type[1] # "All"
     /\ MatchingIndices(animal_data[1], selected_skin_type[1]) = {}) =>
        /\ raised # None
        /\ raised[1].type = "ValueError"
        /\ Find(raised[1].msg, "'" \o selected_skin_type[1] \o "'", 1) # 0
        /\ html = None
        /\ output_file = None

EmptyFetch ==
    ~args.use_json /\ env.source = Some([kind |-> "json", body |-> <<>>])

FailedFetch ==
    /\ ~args.use_json
    /\ env.source # None
    /\ env.source[1].kind \in {"transport_error", "http_error", "bad_json", "not_list"}

C8_OutputOnlyOnSuccess ==
    /\ (output_file # None) =>
           pc = "exited" /\ exit_code = Some(0) /\ raised = None
    /\ (raised # None \/ exit_code \notin {None, Some(0)}) => output_file = None

C8_Witness ==
    /\ pc = "exited"
    /\ exit_code = Some(2)
    /\ selected_skin_type = Some("Feathers")
    /\ animal_data # None
    /\ Len(animal_data[1]) = 2
    /\ output_file = None

Blank(s) == \A i \in 1..Len(s) : SubSeq(s, i, i) = " "

SourceKind == IF env.source = None THEN "unread" ELSE env.source[1].kind

\* What a run met, read off its arguments and what it read from outside.
TemplateMissing == env.template_exists = Some(FALSE)
NameEmpty ==
    ~IsTruthy(args.animal_name) /\ env.typed_name # None /\ Blank(env.typed_name[1])
ApiKeyMissing == ~args.use_json /\ animal_name # None /\ ~IsTruthy(args.api_key)
NetworkFailed == ~args.use_json /\ SourceKind \in {"transport_error", "http_error"}
ResponseUnusable == ~args.use_json /\ SourceKind \in {"bad_json", "not_list"}
DataFileMissing == args.use_json /\ SourceKind = "missing"
DataFileMalformed == args.use_json /\ SourceKind = "malformed"
\* The filter ran (a non-empty target other than "All") and matched nothing.
FilterCameOutEmpty ==
    /\ IsTruthy(selected_skin_type)
    /\ selected_skin_type[1] # "All"
    /\ MatchingIndices(animal_data[1], selected_skin_type[1]) = {}

====
